---- MODULE Spec2Model ----
(***************************************************************************)
(* Model of the intercepting HTTPS policy gateway.                         *)
(*   src/prison-network/src/main.rs : the CONNECT variant                  *)
(*   src/rust-proxy/src/main.rs     : the SNI (transparent) variant        *)
(* Rust strings that carry data (host names, paths, methods, request       *)
(* bytes) are sequences of one-character strings, so that ends_with,       *)
(* starts_with, lines() and split_whitespace() are computed, not assumed.  *)
(***************************************************************************)
EXTENDS Integers, Sequences, FiniteSets, TLC

VARIABLES variant, config, ca, listener, acceptErrors, conn, traffic, pol, sni, log

vars == <<variant, config, ca, listener, acceptErrors, conn, traffic, pol, sni, log>>

(***************************************************************************)
(* Bounds of the model                                                     *)
(***************************************************************************)
\* number of client connections the listener accepts in one behaviour
MaxConns == 2
\* longest rule list of a snapshot in the policy specification
MaxRules == 2
\* chunks each copy direction moves while a connection is spliced
MaxSplice == 1
\* the size of the buffer of read_connect_request, vec![0u8; 4096], scaled
\* down: every CONNECT request of the model fits in it
ConnectBufLen == 48

ConnIds == 1..MaxConns

(***************************************************************************)
(* String data                                                             *)
(***************************************************************************)
ExampleCom == <<"e","x","a","m","p","l","e",".","c","o","m">>
ApiExampleCom == <<"a","p","i",".">> \o ExampleCom
ABExampleCom == <<"a",".","b",".">> \o ExampleCom
BadExampleCom == <<"b","a","d">> \o ExampleCom
ExampleComEvilCom == ExampleCom \o <<".","e","v","i","l",".","c","o","m">>
ApiTest == <<"a","p","i",".","t","e","s","t">>
BlockedTest == <<"b","l","o","c","k","e","d",".","t","e","s","t">>
DotCom == <<"c","o","m">>

PathRoot == <<"/">>
PathV1 == <<"/","v","1","/">>
PathV1Users == <<"/","v","1","/","u","s","e","r","s">>
PathV2Admin == <<"/","v","2","/","a","d","m","i","n">>
PathV1NoSlash == <<"/","v","1">>

MethodConnect == <<"C","O","N","N","E","C","T">>
MethodGet == <<"G","E","T">>
MethodUnknown == <<"?">>
HttpVersion == <<"H","T","T","P","/","1",".","1">>
SP == <<" ">>
CRLF == <<"\r","\n">>

\* the hosts the policy is evaluated on
PolicyHosts == {ExampleCom, ApiExampleCom, ABExampleCom, BadExampleCom,
                ExampleComEvilCom, ApiTest, BlockedTest, DotCom, <<>>}
\* the paths the policy is evaluated on
PolicyPaths == {PathRoot, PathV1, PathV1Users, PathV2Admin, PathV1NoSlash}
\* fn default_mode() -> String
default_mode == "monitor"

\* #[serde(default = "default_mode")] mode: String: the value of the "mode"
\* key of the document, default_mode() when the key is missing
DeserializeMode(doc) == IF doc.has_mode THEN doc.mode ELSE default_mode

\* the "mode" keys of the configuration documents
ModeKeys ==
    {[has_mode |-> FALSE, mode |-> ""]}
    \cup {[has_mode |-> TRUE, mode |-> v] : v \in {"monitor", "enforce", "Enforce", ""}}

\* the modes a snapshot can carry (Config.mode is a free-form string)
PolicyModes == {DeserializeMode(doc) : doc \in ModeKeys}
\* the rules the snapshots of the policy specification are built from
PolicyRules == {[host |-> h, allowed_paths |-> ps] :
                   h \in {ExampleCom, ApiTest, DotCom},
                   ps \in {<<>>, <<PathV1>>, <<PathV2Admin, PathV1>>}}

(***************************************************************************)
(* Rust string primitives                                                  *)
(***************************************************************************)
\* str::ends_with
EndsWith(s, suffix) ==
    /\ Len(suffix) <= Len(s)
    /\ SubSeq(s, Len(s) - Len(suffix) + 1, Len(s)) = suffix

\* str::starts_with
StartsWith(s, prefix) ==
    /\ Len(prefix) <= Len(s)
    /\ SubSeq(s, 1, Len(prefix)) = prefix

\* str::lines().next().unwrap_or(""): the text before the first "\n",
\* without a "\r" that directly precedes it
FirstLine(data) ==
    LET nl == {i \in 1..Len(data) : data[i] = "\n"}
        end == IF nl = {} THEN Len(data)
               ELSE (CHOOSE i \in nl : \A j \in nl : i <= j) - 1
        line == SubSeq(data, 1, end)
    IN IF nl # {} /\ Len(line) > 0 /\ line[Len(line)] = "\r"
       THEN SubSeq(line, 1, Len(line) - 1)
       ELSE line

IsWhitespace(ch) == ch \in {" ", "\t", "\r", "\n"}

\* str::split_whitespace().collect(): the maximal runs of non-whitespace
RECURSIVE SplitFrom(_, _, _)
SplitFrom(line, i, cur) ==
    IF i > Len(line)
    THEN IF cur = <<>> THEN <<>> ELSE <<cur>>
    ELSE IF IsWhitespace(line[i])
         THEN IF cur = <<>> THEN SplitFrom(line, i + 1, <<>>)
              ELSE <<cur>> \o SplitFrom(line, i + 1, <<>>)
         ELSE SplitFrom(line, i + 1, Append(cur, line[i]))

SplitWhitespace(line) == SplitFrom(line, 1, <<>>)

(***************************************************************************)
(* Policy evaluator                                                        *)
(***************************************************************************)
\* faulty variant: drops the "." of the suffix test
HostRuleMatches_NoDot(host, rule) ==
    host = rule.host \/ EndsWith(host, rule.host)

\* the closure passed to find(): host == rule.host || host.ends_with(".host")
HostRuleMatches(host, rule) ==
    host = rule.host \/ EndsWith(host, <<".">> \o rule.host)

\* faulty variant: the last matching rule wins
FindRule_Last(rules, host) ==
    LET hits == {i \in 1..Len(rules) : HostRuleMatches(host, rules[i])}
    IN IF hits = {} THEN 0 ELSE CHOOSE i \in hits : \A j \in hits : i >= j

\* allowed_rules.iter().find(..): index of the first matching rule, 0 = None
FindRule(rules, host) ==
    LET hits == {i \in 1..Len(rules) : HostRuleMatches(host, rules[i])}
    IN IF hits = {} THEN 0 ELSE CHOOSE i \in hits : \A j \in hits : i <= j

\* faulty variant: the mode is compared without regard to case
check_host_allowed_AnyCase(cfg, host) ==
    IF cfg.mode \notin {"enforce", "Enforce"} THEN <<TRUE, "Monitor Mode">>
    ELSE IF FindRule(cfg.allowed_rules, host) = 0
         THEN <<FALSE, "Host Not Allowed">>
         ELSE <<TRUE, "Host Allowed">>

\* faulty variant: looks the host up by equality only
check_host_allowed_ExactOnly(cfg, host) ==
    IF cfg.mode # "enforce" THEN <<TRUE, "Monitor Mode">>
    ELSE IF \E i \in 1..Len(cfg.allowed_rules) : cfg.allowed_rules[i].host = host
         THEN <<TRUE, "Host Allowed">>
         ELSE <<FALSE, "Host Not Allowed">>

check_host_allowed(cfg, host) ==
    IF cfg.mode # "enforce" THEN <<TRUE, "Monitor Mode">>
    ELSE IF FindRule(cfg.allowed_rules, host) = 0
         THEN <<FALSE, "Host Not Allowed">>
         ELSE <<TRUE, "Host Allowed">>

\* faulty variant: only the first allowed_paths entry is tried
check_request_FirstPathOnly(cfg, host, path) ==
    IF cfg.mode # "enforce" THEN <<TRUE, "Monitor Mode">>
    ELSE LET i == FindRule(cfg.allowed_rules, host)
         IN IF i = 0 THEN <<FALSE, "Host Not Allowed">>
            ELSE IF cfg.allowed_rules[i].allowed_paths = <<>>
                 THEN <<TRUE, "Host Match">>
                 ELSE IF StartsWith(path, cfg.allowed_rules[i].allowed_paths[1])
                      THEN <<TRUE, "Path Match">>
                      ELSE <<FALSE, "Path Not Allowed">>

\* faulty variant: starts with the rule lookup and never looks at the mode
check_request_NoModeCheck(cfg, host, path) ==
    LET i == FindRule(cfg.allowed_rules, host)
    IN IF i = 0 THEN <<FALSE, "Host Not Allowed">>
       ELSE IF cfg.allowed_rules[i].allowed_paths = <<>>
            THEN <<TRUE, "Host Match">>
            ELSE IF \E k \in 1..Len(cfg.allowed_rules[i].allowed_paths) :
                       StartsWith(path, cfg.allowed_rules[i].allowed_paths[k])
                 THEN <<TRUE, "Path Match">>
                 ELSE <<FALSE, "Path Not Allowed">>

check_request(cfg, host, path) ==
    IF cfg.mode # "enforce" THEN <<TRUE, "Monitor Mode">>
    ELSE LET i == FindRule(cfg.allowed_rules, host)
         IN IF i = 0 THEN <<FALSE, "Host Not Allowed">>
            ELSE IF cfg.allowed_rules[i].allowed_paths = <<>>
                 THEN <<TRUE, "Host Match">>
                 ELSE IF \E k \in 1..Len(cfg.allowed_rules[i].allowed_paths) :
                            StartsWith(path, cfg.allowed_rules[i].allowed_paths[k])
                      THEN <<TRUE, "Path Match">>
                      ELSE <<FALSE, "Path Not Allowed">>

(***************************************************************************)
(* Shared state and the values a connection carries                        *)
(***************************************************************************)
\* the snapshots the gateway is started with when one connection is followed
PipelineConfigs ==
    {[mode |-> m, allowed_rules |-> rs] :
        m \in {"monitor", "enforce"},
        rs \in {<<>>,
                <<[host |-> ApiTest, allowed_paths |-> <<PathV1>>]>>,
                <<[host |-> ExampleCom, allowed_paths |-> <<>>]>>,
                <<[host |-> ApiTest, allowed_paths |-> <<PathV1>>],
                  [host |-> ExampleCom, allowed_paths |-> <<>>]>>}}

\* the snapshots the gateway is started with when the listener is followed
ServerConfigs ==
    {[mode |-> "enforce",
      allowed_rules |-> <<[host |-> ApiTest, allowed_paths |-> <<PathV1>>]>>]}

\* what the first read of the inbound plaintext stream can return
Requests ==
    {<<>>,
     MethodGet,
     CRLF \o MethodGet \o SP \o PathV1Users \o SP \o HttpVersion \o CRLF \o CRLF,
     MethodGet \o SP \o PathV1Users \o SP \o HttpVersion \o CRLF \o CRLF,
     MethodGet \o SP \o PathV2Admin \o SP \o HttpVersion \o CRLF \o CRLF}

\* the first request of the clients of the listener
ServerRequests ==
    {MethodGet \o SP \o PathV1Users \o SP \o HttpVersion \o CRLF \o CRLF}

\* bytes the copy loops move while spliced
ClientChunk == <<"c">>
UpstreamChunk == "upstream-bytes"

Resp400 == [status |-> 400, body |-> "", host |-> <<>>]
Resp403Host == [status |-> 403, body |-> "Host not allowed", host |-> <<>>]
Resp502(hostname) == [status |-> 502, body |-> "Failed to connect to", host |-> hostname]
Resp200 == [status |-> 200, body |-> "", host |-> <<>>]
Canned403 == "HTTP/1.1 403 Forbidden / Blocked by Secure Proxy"

NoDecision == <<FALSE, "">>
NoLeaf == [san |-> <<>>, cn |-> <<>>, issuer |-> "none"]
NoAddr == [host |-> <<>>, port |-> 0]

\* CaAuthority::new: the root material shared by all connections
CaAuthority == [ca_key |-> "ca.private.key", ca_cert |-> "Secure Proxy CA"]

\* CaAuthority::generate_cert_for_host: SAN and CN are the hostname, signed
\* by the root
generate_cert_for_host(authority, hostname) ==
    [san |-> hostname, cn |-> hostname, issuer |-> authority.ca_cert]

\* faulty variant: verifies upstream against the dialled address "host:port"
OutboundServerName_Addr(hostname, port) ==
    hostname \o <<":">> \o (IF port = 443 THEN <<"4","4","3">> ELSE <<"8","4","4","3">>)

\* server_name = hostname.clone().try_into()
OutboundServerName(hostname, port) == hostname

\* log_traffic: one line appended when the file could be opened, otherwise
\* the event is dropped without an error
log_traffic(file, entry, opened) ==
    IF opened THEN Append(file, entry) ELSE file

TrafficEntry(action, host, path, method, mode, reason) ==
    [action |-> action, host |-> host, path |-> path, method |-> method,
     mode |-> mode, reason |-> reason]

\* a task slot before the listener has accepted its socket
IdleConn ==
    [pc |-> "idle", result |-> "none", hostname |-> <<>>, port |-> 0,
     steps |-> <<>>, hostDec |-> NoDecision, pathDec |-> NoDecision,
     hostChecked |-> <<>>, requestChecked |-> [host |-> <<>>, path |-> <<>>],
     leaf |-> NoLeaf, upstream |-> "none", upstreamAddr |-> NoAddr,
     serverName |-> <<>>, inbound |-> "tcp", request_data |-> <<>>,
     method |-> <<>>, path |-> <<>>, clientOut |-> <<>>, tlsOut |-> <<>>,
     upstreamOut |-> <<>>, events |-> <<>>, copied |-> <<0, 0>>, done |-> {},
     stream |-> <<>>, total_read |-> 0, peeked |-> 0, consumed |-> 0,
     found |-> "pending",
     handshakeIn |-> <<>>]

(***************************************************************************)
(* Order of the steps of handle_connection                                 *)
(***************************************************************************)
\* faulty variant: tells the client to start TLS before upstream is dialled
ConnectOrder_200BeforeDial ==
    <<"discover", "host_gate", "send200", "dial", "mint", "inbound_tls",
      "outbound_tls", "read_request", "path_gate", "forward", "splice">>

ConnectOrder ==
    <<"discover", "host_gate", "dial", "send200", "mint", "inbound_tls",
      "outbound_tls", "read_request", "path_gate", "forward", "splice">>

\* faulty variant: mints the leaf before the host gate has run
SniOrder_MintFirst ==
    <<"discover", "mint", "host_gate", "inbound_tls", "dial",
      "outbound_tls", "read_request", "path_gate", "forward", "splice">>

SniOrder ==
    <<"discover", "host_gate", "mint", "inbound_tls", "dial",
      "outbound_tls", "read_request", "path_gate", "forward", "splice">>

StepOrder(v) == IF v = "connect" THEN ConnectOrder ELSE SniOrder

\* position of a step name in a sequence of step names, 0 when absent
Idx(s, name) ==
    IF \E i \in 1..Len(s) : s[i] = name
    THEN CHOOSE i \in 1..Len(s) : s[i] = name /\ \A j \in 1..(i - 1) : s[j] # name
    ELSE 0

\* the step that follows a successful step
NextStep(v, pc) == StepOrder(v)[Idx(StepOrder(v), pc) + 1]

\* faulty variant: falls through the deny branch of the host gate
AfterHostGate_NoReturn(v, allowed) == NextStep(v, "host_gate")

\* if !host_allowed { ...; return Ok(()) }
AfterHostGate(v, allowed) ==
    IF allowed THEN NextStep(v, "host_gate") ELSE "closed"

\* faulty variant: falls through the deny branch of the path gate
AfterPathGate_NoReturn(v, allowed) == NextStep(v, "path_gate")

\* if !allowed { ...; return Ok(()) }
AfterPathGate(v, allowed) ==
    IF allowed THEN NextStep(v, "path_gate") ELSE "closed"

\* faulty variant: also logs the hosts the gate lets through
HostGateEvents_Always(allowed, entry) == <<entry>>

\* if !host_allowed { log_traffic("BLOCK", ..); .. }: the events of the host gate
HostGateEvents(allowed, entry) == IF allowed THEN <<>> ELSE <<entry>>

\* faulty variant: lets a task's error end the accept loop
spawned_task_Propagates(loop, taskResult) ==
    IF taskResult = "err" THEN "exited" ELSE loop

\* tokio::spawn(async move { if let Err(e) = handle_connection(..) { error!(..) } })
spawned_task(loop, taskResult) == loop

\* let mut buf = vec![0u8; 4096] before the peek
PeekBufLen == 4096

(***************************************************************************)
(* Bytes and text                                                          *)
(***************************************************************************)
\* the printable ASCII characters, from code 32 (space) to code 126 (the
\* grave accent, code 96, is written as its code point)
AsciiChars ==
    <<
      " ", "!", "\"", "#", "$", "%", "&", "'", "(", ")", "*", "+",
      ",", "-", ".", "/", "0", "1", "2", "3", "4", "5", "6", "7",
      "8", "9", ":", ";", "<", "=", ">", "?", "@", "A", "B", "C",
      "D", "E", "F", "G", "H", "I", "J", "K", "L", "M", "N", "O",
      "P", "Q", "R", "S", "T", "U", "V", "W", "X", "Y", "Z", "[",
      "\\", "]", "^", "_", "U+96", "a", "b", "c", "d", "e", "f", "g",
      "h", "i", "j", "k", "l", "m", "n", "o", "p", "q", "r", "s",
      "t", "u", "v", "w", "x", "y", "z", "{", "|", "}", "~" >>

\* the byte of an ASCII character and the characters of an ASCII text
Ord(ch) == 31 + (CHOOSE i \in 1..Len(AsciiChars) : AsciiChars[i] = ch)
Bytes(text) == [i \in 1..Len(text) |-> Ord(text[i])]

\* char::from_u32 on a decoded scalar value: the character itself when it
\* is printable ASCII, its code point otherwise
Chr(cp) == IF cp >= 32 /\ cp <= 126 THEN AsciiChars[cp - 31] ELSE "U+" \o ToString(cp)

\* Rust slices are indexed from 0
At(s, i) == s[i + 1]
Slice(s, a, b) == SubSeq(s, a + 1, b)
DropFirst(s, n) == SubSeq(s, n + 1, Len(s))

U16(hi, lo) == hi * 256 + lo
U24(hi, mid, lo) == hi * 65536 + mid * 256 + lo
U16Bytes(n) == <<n \div 256, n % 256>>
U24Bytes(n) == <<n \div 65536, (n \div 256) % 256, n % 256>>

IsCont(b) == b >= 128 /\ b <= 191

\* std::str::from_utf8 over bytes[i..]: the decoded characters appended to
\* acc, or <<"invalid">> when the bytes are not well-formed UTF-8
RECURSIVE Utf8Decode(_, _, _)
Utf8Decode(bytes, i, acc) ==
    IF i > Len(bytes) THEN acc
    ELSE LET b0 == bytes[i]
             has(k) == i + k <= Len(bytes)
             b(k) == bytes[i + k]
         IN IF b0 < 128
            THEN Utf8Decode(bytes, i + 1, Append(acc, Chr(b0)))
            ELSE IF b0 >= 194 /\ b0 <= 223
            THEN IF has(1) /\ IsCont(b(1))
                 THEN Utf8Decode(bytes, i + 2,
                        Append(acc, Chr((b0 - 192) * 64 + (b(1) - 128))))
                 ELSE <<"invalid">>
            ELSE IF b0 >= 224 /\ b0 <= 239
            THEN IF /\ has(2)
                    /\ IsCont(b(1)) /\ IsCont(b(2))
                    /\ (b0 = 224 => b(1) >= 160)
                    /\ (b0 = 237 => b(1) <= 159)
                 THEN Utf8Decode(bytes, i + 3,
                        Append(acc, Chr((b0 - 224) * 4096 + (b(1) - 128) * 64
                                        + (b(2) - 128))))
                 ELSE <<"invalid">>
            ELSE IF b0 >= 240 /\ b0 <= 244
            THEN IF /\ has(3)
                    /\ IsCont(b(1)) /\ IsCont(b(2)) /\ IsCont(b(3))
                    /\ (b0 = 240 => b(1) >= 144)
                    /\ (b0 = 244 => b(1) <= 143)
                 THEN Utf8Decode(bytes, i + 4,
                        Append(acc, Chr((b0 - 240) * 262144 + (b(1) - 128) * 4096
                                        + (b(2) - 128) * 64 + (b(3) - 128))))
                 ELSE <<"invalid">>
            ELSE <<"invalid">>

(***************************************************************************)
(* parse_sni (SNI variant)                                                 *)
(***************************************************************************)
\* Option<String>, and the panic of an out-of-range index or slice
SniNone == [kind |-> "none", name |-> <<>>]
SniSome(name) == [kind |-> "some", name |-> name]
SniPanic == [kind |-> "panic", name |-> <<>>]

\* String::from_utf8(..).ok()
from_utf8(bytes) ==
    LET text == Utf8Decode(bytes, 1, <<>>)
    IN IF text = <<"invalid">> THEN SniNone ELSE SniSome(text)

\* faulty variant: slices the name without comparing name_len with the
\* extension data
parse_sni_server_name_NoNameLen(sni_data) ==
    IF Len(sni_data) < 5 THEN SniNone
    ELSE LET name_len == U16(At(sni_data, 3), At(sni_data, 4))
         IN IF 5 + name_len > Len(sni_data) THEN SniPanic
            ELSE from_utf8(Slice(sni_data, 5, 5 + name_len))

\* the body of `if ext_type == 0`: list length (2), type (1), name length
\* (2), name; the type byte sni_data[2] is not read
parse_sni_server_name(sni_data) ==
    IF Len(sni_data) < 5 THEN SniNone
    ELSE LET name_len == U16(At(sni_data, 3), At(sni_data, 4))
         IN IF Len(sni_data) < 5 + name_len THEN SniNone
            ELSE IF 5 + name_len > Len(sni_data) THEN SniPanic
            ELSE from_utf8(Slice(sni_data, 5, 5 + name_len))

\* a result of the walk over hello, with the offsets in hello of the name
\* bytes sni_data[5..5 + name_len] (sni_data starts at p) and the end of the
\* extensions block the walk was given
Located(result, hello, p, ext_end) ==
    IF result.kind = "some"
    THEN [kind |-> "some", name |-> result.name,
          from |-> p + 5,
          to |-> p + 5 + U16(At(hello, p + 3), At(hello, p + 4)),
          ext_end |-> ext_end]
    ELSE result

\* while pos + 4 <= ext_end && pos + 4 <= hello.len() { .. }
RECURSIVE parse_sni_extensions(_, _, _)
parse_sni_extensions(hello, pos, ext_end) ==
    IF pos + 4 <= ext_end /\ pos + 4 <= Len(hello)
    THEN IF pos + 3 >= Len(hello) THEN SniPanic
         ELSE LET ext_type == U16(At(hello, pos), At(hello, pos + 1))
                  ext_data_len == U16(At(hello, pos + 2), At(hello, pos + 3))
                  p == pos + 4
              IN IF ext_type = 0
                 THEN IF p + ext_data_len > Len(hello) THEN SniNone
                      ELSE Located(parse_sni_server_name(
                                       Slice(hello, p, p + ext_data_len)),
                                   hello, p, ext_end)
                 ELSE parse_sni_extensions(hello, p + ext_data_len, ext_end)
    ELSE SniNone

\* the skips over version, random, session id, cipher suites and compression
\* methods, up to the extensions block
parse_sni_hello(hello) ==
    IF Len(hello) < 34 THEN SniNone
    ELSE LET pos0 == 34
         IN IF pos0 >= Len(hello) THEN SniNone
            ELSE LET session_len == At(hello, pos0)
                     pos1 == pos0 + 1 + session_len
                 IN IF pos1 + 2 > Len(hello) THEN SniNone
                    ELSE LET cipher_len == U16(At(hello, pos1), At(hello, pos1 + 1))
                             pos2 == pos1 + 2 + cipher_len
                         IN IF pos2 >= Len(hello) THEN SniNone
                            ELSE LET comp_len == At(hello, pos2)
                                     pos3 == pos2 + 1 + comp_len
                                 IN IF pos3 + 2 > Len(hello) THEN SniNone
                                    ELSE LET ext_len == U16(At(hello, pos3),
                                                            At(hello, pos3 + 1))
                                             pos4 == pos3 + 2
                                         IN parse_sni_extensions(hello, pos4,
                                                                 pos4 + ext_len)

\* parse_sni: the TLS record header and the handshake header, then the walk
\* over hello = &buf[9..]
parse_sni_walk(buf) ==
    IF Len(buf) < 5 \/ At(buf, 0) # 22 THEN SniNone
    ELSE LET record_len == U16(At(buf, 3), At(buf, 4))
         IN IF Len(buf) < 5 + record_len THEN SniNone
            ELSE LET handshake == DropFirst(buf, 5)
                 IN IF handshake = <<>> \/ At(handshake, 0) # 1 THEN SniNone
                    ELSE IF Len(handshake) < 4 THEN SniNone
                    ELSE LET hello_len == U24(At(handshake, 1), At(handshake, 2),
                                              At(handshake, 3))
                         IN IF Len(handshake) < 4 + hello_len THEN SniNone
                            ELSE parse_sni_hello(DropFirst(handshake, 4))

\* parse_sni: Option<String>
parse_sni(buf) ==
    LET w == parse_sni_walk(buf) IN [kind |-> w.kind, name |-> w.name]

NoSpan == [from |-> 0, to |-> 0, ext_end |-> 0]

\* the offsets in buf of the bytes the returned name was decoded from, and
\* of the end of the extensions block as the ClientHello declares it
NameSpan(buf) ==
    LET w == parse_sni_walk(buf)
    IN IF w.kind = "some"
       THEN [from |-> 9 + w.from, to |-> 9 + w.to, ext_end |-> 9 + w.ext_end]
       ELSE NoSpan

(***************************************************************************)
(* read_connect_request (CONNECT variant): the parse after the read loop   *)
(***************************************************************************)
CRLFCRLF == CRLF \o CRLF

\* buf[..total_read].windows(4).position(|w| w == b"\r\n\r\n").is_some()
HasHeadersEnd(data) ==
    \E i \in 1..Len(data) : i + 3 <= Len(data) /\ SubSeq(data, i, i + 3) = CRLFCRLF

Digits == <<"0", "1", "2", "3", "4", "5", "6", "7", "8", "9">>
DigitValue(ch) == (CHOOSE i \in 1..10 : Digits[i] = ch) - 1

RECURSIVE DecimalValue(_, _)
DecimalValue(s, acc) ==
    IF s = <<>> THEN acc
    ELSE DecimalValue(Tail(s), IF acc > 65535 THEN acc ELSE acc * 10 + DigitValue(Head(s)))

\* target[colon_pos + 1..].parse::<u16>().unwrap_or(443): decimal digits
\* after an optional "+", no larger than 65535
ParsePort(s) ==
    LET d == IF s # <<>> /\ Head(s) = "+" THEN Tail(s) ELSE s
    IN IF d # <<>> /\ (\A i \in 1..Len(d) : \E k \in 1..10 : Digits[k] = d[i])
          /\ DecimalValue(d, 0) <= 65535
       THEN DecimalValue(d, 0)
       ELSE 443

\* target.rfind(':'), 0 when there is none
RFindColon(target) ==
    LET at == {i \in 1..Len(target) : target[i] = ":"}
    IN IF at = {} THEN 0 ELSE CHOOSE i \in at : \A j \in at : j <= i

NoTarget == [ok |-> FALSE, host |-> <<>>, port |-> 0]

\* the request line of the bytes read: Some((host, port)) or None
ParseConnect(data) ==
    LET parts == SplitWhitespace(FirstLine(data))
    IN IF Len(parts) < 3 \/ parts[1] # MethodConnect THEN NoTarget
       ELSE LET target == parts[2]
                colon_pos == RFindColon(target)
            IN IF colon_pos > 0
               THEN [ok |-> TRUE, host |-> SubSeq(target, 1, colon_pos - 1),
                     port |-> ParsePort(SubSeq(target, colon_pos + 1, Len(target)))]
               ELSE [ok |-> TRUE, host |-> target, port |-> 443]

(***************************************************************************)
(* What clients send                                                       *)
(***************************************************************************)
\* a CONNECT request: request line and the empty line that ends the headers
ConnectRequest(target) ==
    MethodConnect \o SP \o target \o SP \o HttpVersion \o CRLFCRLF

\* a CONNECT request with one header line, n characters long in total
PaddedConnect(target, n) ==
    LET line == MethodConnect \o SP \o target \o SP \o HttpVersion \o CRLF
    IN line \o <<"X", ":">> \o [i \in 1..(n - Len(line) - 6) |-> "x"] \o CRLFCRLF

ApiTest443 == ApiTest \o <<":", "4", "4", "3">>

\* the first bytes of a TLS record, sent right behind the CONNECT request
PipelinedTls == <<Chr(22), Chr(3)>>

\* the byte streams of CONNECT clients
ConnectStreams ==
    {ConnectRequest(ApiTest443),
     ConnectRequest(ABExampleCom \o <<":", "8", "4", "4", "3">>),
     ConnectRequest(BlockedTest \o <<":", "4", "4", "3">>),
     ConnectRequest(ApiTest),
     ConnectRequest(ApiTest443) \o PipelinedTls,
     PaddedConnect(ApiTest443, ConnectBufLen),
     PaddedConnect(ApiTest443, ConnectBufLen + 1),
     PaddedConnect(ApiTest443, ConnectBufLen + 4),
     MethodGet \o SP \o PathRoot \o SP \o HttpVersion \o CRLFCRLF,
     MethodConnect \o SP \o ApiTest}

\* the layout of a ClientHello record, as parse_sni walks it
SniEntry(name_type, name) == <<name_type>> \o U16Bytes(Len(name)) \o name
Extension(ext_type, data) == U16Bytes(ext_type) \o U16Bytes(Len(data)) \o data
ServerNameExt(entries) == Extension(0, U16Bytes(Len(entries)) \o entries)
ClientHelloBody(session_id, exts) ==
    <<3, 3>> \o [i \in 1..32 |-> 0] \o <<Len(session_id)>> \o session_id
        \o <<0, 2, 19, 1>> \o <<1, 0>> \o U16Bytes(Len(exts)) \o exts
Handshake(msg_type, body) == <<msg_type>> \o U24Bytes(Len(body)) \o body
TlsRecord(content_type, payload) ==
    <<content_type, 3, 1>> \o U16Bytes(Len(payload)) \o payload
ClientHello(exts) == TlsRecord(22, Handshake(1, ClientHelloBody(<<>>, exts)))
HelloFor(host) == ClientHello(ServerNameExt(SniEntry(0, Bytes(host))))

SupportedVersionsExt == Extension(43, <<2, 3, 4>>)

\* the byte streams of TLS clients
SniStreams ==
    {HelloFor(ApiTest),
     HelloFor(ABExampleCom),
     HelloFor(BlockedTest),
     ClientHello(SupportedVersionsExt \o ServerNameExt(SniEntry(0, Bytes(ApiTest)))),
     ClientHello(SupportedVersionsExt),
     TlsRecord(21, <<2, 40>>)}

ClientStreams == [connect |-> ConnectStreams, sni |-> SniStreams]

\* the clients of the listener
ServerStreams ==
    [connect |-> {ConnectRequest(ApiTest443),
                  ConnectRequest(BlockedTest \o <<":", "8", "4", "4", "3">>)},
     sni |-> {HelloFor(ApiTest), HelloFor(BlockedTest)}]

\* how many bytes one read or peek may return: any split of the stream, or
\* everything that fits
AnyRead == 0..(ConnectBufLen + ConnectBufLen)
WholeRead == {ConnectBufLen + ConnectBufLen}

Min3(a, b, c) == IF a <= b /\ a <= c THEN a ELSE IF b <= c THEN b ELSE c

\* faulty variant: a full buffer is parsed as if the headers had ended
HeadersComplete_OrFull(data) == HasHeadersEnd(data) \/ Len(data) >= ConnectBufLen

\* the break of the read loop: CRLFCRLF is in buf[..total_read]
HeadersComplete(data) == HasHeadersEnd(data)

\* faulty variant: the first bytes are read off the socket
ConsumedByPeek_Read(n) == n

\* client.peek(&mut buf) leaves the bytes in the socket
ConsumedByPeek(n) == 0

\* the two tokio::io::copy futures of a spliced connection
CopyDirs == {"client_to_upstream", "upstream_to_client"}

\* faulty variant: waits for both copies, as join! would
SpliceFinished_Both(done) == done = CopyDirs

\* tokio::select! { _ = client_to_upstream => {}, _ = upstream_to_client => {} }
SpliceFinished(done) == done # {}

\* faulty variant: a lone token is taken as the method
RequestLine_LoneMethod(data) ==
    LET parts == SplitWhitespace(FirstLine(data))
    IN IF Len(parts) >= 2
       THEN [method |-> parts[1], path |-> parts[2]]
       ELSE IF Len(parts) = 1
            THEN [method |-> parts[1], path |-> PathRoot]
            ELSE [method |-> MethodUnknown, path |-> PathRoot]

\* let (method, path) = if parts.len() >= 2 { (parts[0], parts[1]) } else { ("?", "/") }
RequestLine(data) ==
    LET parts == SplitWhitespace(FirstLine(data))
    IN IF Len(parts) >= 2
       THEN [method |-> parts[1], path |-> parts[2]]
       ELSE [method |-> MethodUnknown, path |-> PathRoot]

(***************************************************************************)
(* Initial states                                                          *)
(***************************************************************************)
NoEvaluation ==
    [evaluated |-> FALSE, host |-> <<>>, path |-> <<>>,
     hostDec |-> NoDecision, reqDec |-> NoDecision]

\* no buffer handed to parse_sni yet
NoParse == [parsed |-> FALSE, buf |-> <<>>, result |-> SniNone, span |-> NoSpan]

\* /logs/traffic.jsonl before any write, and no log_traffic call under way
NoLog == [file |-> <<>>, pending |-> [c \in ConnIds |-> <<>>], calls |-> [c \in ConnIds |-> 0]]

\* main() up to the accept loop: snapshot loaded, CA built, listener bound
InitWith(configs) ==
    /\ variant \in {"connect", "sni"}
    /\ config \in configs
    /\ ca = CaAuthority
    /\ listener = "listening"
    /\ acceptErrors = 0
    /\ conn = [c \in ConnIds |-> IdleConn]
    /\ traffic = <<>>
    /\ pol = NoEvaluation
    /\ sni = NoParse
    /\ log = NoLog

(***************************************************************************)
(* Listener                                                                *)
(***************************************************************************)
\* what a step of connection c leaves alone; it runs while the process is
\* alive, and the task boundary decides what its result does to the loop
TaskFrame(c) ==
    /\ listener = "listening"
    /\ listener' = spawned_task(listener, conn'[c].result)
    /\ UNCHANGED <<variant, config, ca, acceptErrors, pol, sni, log>>

Closed(r, res) == [r EXCEPT !.pc = "closed", !.result = res]

\* listener.accept() returns a socket: one task is spawned for it; the
\* socket carries what its client sends
Accept(c, D) ==
    /\ listener = "listening"
    /\ conn[c].pc = "idle"
    /\ \A d \in ConnIds : d < c => conn[d].pc # "idle"
    /\ \E s \in D[variant] :
          conn' = [conn EXCEPT ![c] =
                [@ EXCEPT !.pc = "discover", !.result = "running", !.stream = s]]
    /\ UNCHANGED <<variant, config, ca, listener, acceptErrors, traffic, pol, sni, log>>

\* listener.accept() returns an error: the ? operator returns it from main,
\* the runtime is shut down with the process and no task takes another step
AcceptError ==
    /\ listener = "listening"
    /\ listener' = "exited"
    /\ acceptErrors' = acceptErrors + 1
    /\ UNCHANGED <<variant, config, ca, conn, traffic, pol, sni, log>>

(***************************************************************************)
(* handle_connection, one action per await point                           *)
(***************************************************************************)
\* client.write_all(b"HTTP/1.1 400 Bad Request\r\n\r\n").await? and return
Reject400(r, written) ==
    Closed([r EXCEPT !.clientOut = Append(@, Resp400)],
           IF written THEN "ok" ELSE "err")

\* one turn of the loop of read_connect_request, and what follows the loop
\* when this read ends it
ReadConnect(c, N) ==
    LET r == conn[c]
        fin == [r EXCEPT !.steps = Append(@, "discover")]
        avail == Len(r.stream) - r.total_read
        space == ConnectBufLen - r.total_read
    IN \/ \* client.read(..).await? fails
          conn' = [conn EXCEPT ![c] = Closed([fin EXCEPT !.found = "err"], "err")]
       \/ \* n == 0: the client closed before the headers ended
          /\ avail = 0
          /\ \E written \in BOOLEAN :
                conn' = [conn EXCEPT ![c] =
                      Reject400([fin EXCEPT !.found = "none"], written)]
       \/ \E n \in {Min3(k, avail, space) : k \in N} :
             LET total == r.total_read + n
                 data == SubSeq(r.stream, 1, total)
                 got == [fin EXCEPT !.total_read = total, !.consumed = total]
             IN /\ n > 0
                /\ IF HeadersComplete(data)
                   THEN LET t == ParseConnect(data)
                        IN IF t.ok
                           THEN conn' = [conn EXCEPT ![c] =
                                    [got EXCEPT !.hostname = t.host, !.port = t.port,
                                                !.found = "some",
                                                !.pc = NextStep(variant, "discover")]]
                           ELSE \E written \in BOOLEAN :
                                   conn' = [conn EXCEPT ![c] =
                                       Reject400([got EXCEPT !.found = "none"],
                                                 written)]
                   ELSE IF total >= ConnectBufLen
                        THEN \E written \in BOOLEAN :
                                conn' = [conn EXCEPT ![c] =
                                       Reject400([got EXCEPT !.found = "none"],
                                                 written)]
                        ELSE conn' = [conn EXCEPT ![c] =
                                [r EXCEPT !.total_read = total, !.consumed = total]]

\* client.peek(&mut buf) and parse_sni(&buf[..n])
PeekSni(c, N) ==
    LET fin == [conn[c] EXCEPT !.steps = Append(@, "discover")]
    IN \/ \* the peek fails
          conn' = [conn EXCEPT ![c] = Closed([fin EXCEPT !.found = "err"], "err")]
       \/ \E n \in {Min3(k, Len(fin.stream), PeekBufLen) : k \in N} :
             LET name == parse_sni(SubSeq(fin.stream, 1, n))
                 got == [fin EXCEPT !.peeked = n, !.consumed = ConsumedByPeek(n)]
             IN conn' = [conn EXCEPT ![c] =
                   IF name.kind = "some"
                   THEN [got EXCEPT !.hostname = name.name, !.port = 443,
                                    !.found = "some",
                                    !.pc = NextStep(variant, "discover")]
                   ELSE IF name.kind = "none"
                   THEN Closed([got EXCEPT !.found = "none"], "ok")
                   ELSE Closed([got EXCEPT !.found = "panic"], "panic")]

\* destination discovery: read_connect_request (CONNECT) or peek + parse_sni
\* (SNI)
Discover(c, N) ==
    /\ conn[c].pc = "discover"
    /\ \/ variant = "connect" /\ ReadConnect(c, N)
       \/ variant = "sni" /\ PeekSni(c, N)
    /\ UNCHANGED traffic
    /\ TaskFrame(c)

\* check_host_allowed and its deny branch
HostGate(c) ==
    /\ conn[c].pc = "host_gate"
    /\ LET dec == check_host_allowed(config, conn[c].hostname)
           entry == TrafficEntry("BLOCK", conn[c].hostname, PathRoot,
                                 MethodConnect, config.mode, dec[2])
           evs == HostGateEvents(dec[1], entry)
           next == AfterHostGate(variant, dec[1])
           r == [conn[c] EXCEPT !.steps = Append(@, "host_gate"),
                                !.hostDec = dec,
                                !.hostChecked = conn[c].hostname,
                                !.events = @ \o evs]
       IN \E opened \in BOOLEAN, written \in BOOLEAN :
            /\ evs = <<>> => opened
            /\ (dec[1] \/ variant = "sni") => written
            /\ traffic' = IF evs = <<>> THEN traffic
                          ELSE log_traffic(traffic, evs[1], opened)
            /\ conn' = [conn EXCEPT ![c] =
                  IF dec[1]
                  THEN [r EXCEPT !.pc = next]
                  ELSE LET w == IF variant = "connect"
                                THEN [r EXCEPT !.clientOut = Append(@, Resp403Host)]
                                ELSE r
                       IN IF next = "closed"
                          THEN Closed(w, IF written THEN "ok" ELSE "err")
                          ELSE IF written THEN [w EXCEPT !.pc = next]
                               ELSE Closed(w, "err")]
    /\ TaskFrame(c)

\* TcpStream::connect(upstream_addr)
Dial(c) ==
    /\ conn[c].pc = "dial"
    /\ LET r == [conn[c] EXCEPT !.steps = Append(@, "dial")]
       IN \/ conn' = [conn EXCEPT ![c] =
                  [r EXCEPT !.upstream = "connected",
                            !.upstreamAddr = [host |-> r.hostname, port |-> r.port],
                            !.pc = NextStep(variant, "dial")]]
          \/ \* the dial fails: 502 on the CONNECT variant, Err on SNI
             \E written \in BOOLEAN :
                /\ variant = "sni" => ~written
                /\ conn' = [conn EXCEPT ![c] =
                      IF variant = "connect"
                      THEN Closed([r EXCEPT !.clientOut = Append(@, Resp502(r.hostname))],
                                  IF written THEN "ok" ELSE "err")
                      ELSE Closed(r, "err")]
    /\ UNCHANGED traffic
    /\ TaskFrame(c)

\* client.write_all(b"HTTP/1.1 200 Connection Established\r\n\r\n")
Send200(c) ==
    /\ conn[c].pc = "send200"
    /\ LET r == [conn[c] EXCEPT !.steps = Append(@, "send200"),
                                !.clientOut = Append(@, Resp200)]
       IN \/ conn' = [conn EXCEPT ![c] = [r EXCEPT !.pc = NextStep(variant, "send200")]]
          \/ conn' = [conn EXCEPT ![c] = Closed(r, "err")]
    /\ UNCHANGED traffic
    /\ TaskFrame(c)

\* ca.generate_cert_for_host(&hostname)? and the ServerConfig built from it
MintLeaf(c) ==
    /\ conn[c].pc = "mint"
    /\ LET r == [conn[c] EXCEPT !.steps = Append(@, "mint")]
       IN \/ conn' = [conn EXCEPT ![c] =
                  [r EXCEPT !.leaf = generate_cert_for_host(ca, r.hostname),
                            !.pc = NextStep(variant, "mint")]]
          \/ conn' = [conn EXCEPT ![c] = Closed(r, "err")]
    /\ UNCHANGED traffic
    /\ TaskFrame(c)

\* acceptor.accept(client)
AcceptInboundTls(c) ==
    /\ conn[c].pc = "inbound_tls"
    /\ LET r == [conn[c] EXCEPT !.steps = Append(@, "inbound_tls")]
       IN \/ conn' = [conn EXCEPT ![c] =
                  [r EXCEPT !.inbound = "tls",
                            !.handshakeIn = DropFirst(r.stream, r.consumed),
                            !.pc = NextStep(variant, "inbound_tls")]]
          \/ conn' = [conn EXCEPT ![c] = Closed(r, "err")]
    /\ UNCHANGED traffic
    /\ TaskFrame(c)

\* hostname.clone().try_into()? and connector.connect(server_name, upstream)
OutboundTls(c) ==
    /\ conn[c].pc = "outbound_tls"
    /\ LET r == [conn[c] EXCEPT !.steps = Append(@, "outbound_tls")]
       IN \/ conn' = [conn EXCEPT ![c] =
                  [r EXCEPT !.serverName = OutboundServerName(r.hostname, r.port),
                            !.upstream = "tls",
                            !.pc = NextStep(variant, "outbound_tls")]]
          \/ conn' = [conn EXCEPT ![c] = Closed(r, "err")]
    /\ UNCHANGED traffic
    /\ TaskFrame(c)

\* client_tls.read(&mut request_buf) and the parse of the request line
ReadFirstRequest(c, R) ==
    /\ conn[c].pc = "read_request"
    /\ LET r == [conn[c] EXCEPT !.steps = Append(@, "read_request")]
       IN \/ \E data \in R :
                conn' = [conn EXCEPT ![c] =
                    [r EXCEPT !.request_data = data,
                              !.method = RequestLine(data).method,
                              !.path = RequestLine(data).path,
                              !.pc = NextStep(variant, "read_request")]]
          \/ conn' = [conn EXCEPT ![c] = Closed(r, "err")]
    /\ UNCHANGED traffic
    /\ TaskFrame(c)

\* check_request, the first-request event and the deny branch
PathGate(c) ==
    /\ conn[c].pc = "path_gate"
    /\ LET dec == check_request(config, conn[c].hostname, conn[c].path)
           entry == TrafficEntry(IF dec[1] THEN "ALLOW" ELSE "BLOCK",
                                 conn[c].hostname, conn[c].path, conn[c].method,
                                 config.mode, dec[2])
           r == [conn[c] EXCEPT !.steps = Append(@, "path_gate"), !.pathDec = dec,
                                !.requestChecked = [host |-> conn[c].hostname,
                                                    path |-> conn[c].path],
                                !.events = Append(@, entry)]
           next == AfterPathGate(variant, dec[1])
       IN \E opened \in BOOLEAN :
            /\ traffic' = log_traffic(traffic, entry, opened)
            /\ IF dec[1]
               THEN conn' = [conn EXCEPT ![c] = [r EXCEPT !.pc = next]]
               ELSE \E written \in BOOLEAN :
                      conn' = [conn EXCEPT ![c] =
                          LET w == [r EXCEPT !.tlsOut = Append(@, Canned403)]
                          IN IF next = "closed"
                             THEN Closed(w, IF written THEN "ok" ELSE "err")
                             ELSE IF written THEN [w EXCEPT !.pc = next]
                                  ELSE Closed(w, "err")]
    /\ TaskFrame(c)

\* upstream_tls.write_all(request_data): it can fail when there is something
\* to write; write_all of no bytes returns Ok(()) without a write
Forward(c) ==
    /\ conn[c].pc = "forward"
    /\ LET r == [conn[c] EXCEPT !.steps = Append(@, "forward"),
                                !.upstreamOut = Append(@, conn[c].request_data)]
       IN \/ conn' = [conn EXCEPT ![c] = [r EXCEPT !.pc = NextStep(variant, "forward")]]
          \/ /\ r.request_data # <<>>
             /\ conn' = [conn EXCEPT ![c] = Closed(r, "err")]
    /\ UNCHANGED traffic
    /\ TaskFrame(c)

\* tokio::io::copy(client_read, upstream_write) moves a chunk
CopyClientToUpstream(c) ==
    /\ conn[c].pc = "splice"
    /\ conn[c].copied[1] < MaxSplice
    /\ "client_to_upstream" \notin conn[c].done
    /\ conn' = [conn EXCEPT ![c] =
          [@ EXCEPT !.upstreamOut = Append(@, ClientChunk),
                    !.copied = <<@[1] + 1, @[2]>>]]
    /\ UNCHANGED traffic
    /\ TaskFrame(c)

\* tokio::io::copy(upstream_read, client_write) moves a chunk
CopyUpstreamToClient(c) ==
    /\ conn[c].pc = "splice"
    /\ conn[c].copied[2] < MaxSplice
    /\ "upstream_to_client" \notin conn[c].done
    /\ conn' = [conn EXCEPT ![c] =
          [@ EXCEPT !.tlsOut = Append(@, UpstreamChunk),
                    !.copied = <<@[1], @[2] + 1>>]]
    /\ UNCHANGED traffic
    /\ TaskFrame(c)

\* one of the two copies completes (EOF or error); tokio::select! decides
\* whether the task returns Ok(()) now, dropping the other copy
SpliceDone(c) ==
    /\ conn[c].pc = "splice"
    /\ \E dir \in CopyDirs \ conn[c].done :
          LET r == [conn[c] EXCEPT !.done = @ \cup {dir}]
          IN conn' = [conn EXCEPT ![c] =
                IF SpliceFinished(r.done)
                THEN Closed([r EXCEPT !.steps = Append(@, "splice")], "ok")
                ELSE r]
    /\ UNCHANGED traffic
    /\ TaskFrame(c)

handle_connection(c, N, R) ==
    \/ Discover(c, N)
    \/ HostGate(c)
    \/ Dial(c)
    \/ Send200(c)
    \/ MintLeaf(c)
    \/ AcceptInboundTls(c)
    \/ OutboundTls(c)
    \/ ReadFirstRequest(c, R)
    \/ PathGate(c)
    \/ Forward(c)
    \/ CopyClientToUpstream(c)
    \/ CopyUpstreamToClient(c)
    \/ SpliceDone(c)

(***************************************************************************)
(* Spec: the gateway serving its first connection, over all destinations,  *)
(* first requests, snapshots and I/O outcomes                              *)
(***************************************************************************)
Init == InitWith(PipelineConfigs)

Next ==
    \/ Accept(1, ClientStreams)
    \/ AcceptError
    \/ handle_connection(1, AnyRead, Requests)

Spec == Init /\ [][Next]_vars

(***************************************************************************)
(* SpecServer: the listener with up to MaxConns concurrent connection      *)
(* tasks                                                                   *)
(***************************************************************************)
InitServer == InitWith(ServerConfigs)

NextServer ==
    \/ \E c \in ConnIds : Accept(c, ServerStreams)
    \/ AcceptError
    \/ \E c \in ConnIds : handle_connection(c, WholeRead, ServerRequests)

SpecServer == InitServer /\ [][NextServer]_vars

(***************************************************************************)
(* SpecPolicy: the policy evaluator applied to every host and path under   *)
(* every snapshot of up to MaxRules rules                                  *)
(***************************************************************************)
SeqsUpTo(S, n) == UNION {[1..k -> S] : k \in 0..n}

PolicyConfigs ==
    {[mode |-> m, allowed_rules |-> rs] :
        m \in PolicyModes, rs \in SeqsUpTo(PolicyRules, MaxRules)}

InitPolicy == InitWith(PolicyConfigs)

\* both gates applied to one (host, path) under the snapshot
Evaluate(h, p) ==
    /\ ~pol.evaluated
    /\ pol' = [evaluated |-> TRUE, host |-> h, path |-> p,
               hostDec |-> check_host_allowed(config, h),
               reqDec |-> check_request(config, h, p)]
    /\ UNCHANGED <<variant, config, ca, listener, acceptErrors, conn, traffic, sni, log>>

NextPolicy == \E h \in PolicyHosts, p \in PolicyPaths : Evaluate(h, p)

SpecPolicy == InitPolicy /\ [][NextPolicy]_vars

(***************************************************************************)
(* SpecSni: parse_sni applied to ClientHello records, to every prefix of   *)
(* them and to copies with one byte overwritten                            *)
(***************************************************************************)
\* a name that is not well-formed UTF-8
Latin1Name == <<99, 97, 102, 233, 46, 116, 101, 115, 116>>

\* server_name entries of another type than host_name (0)
OtherNameType == 1

WellFormedHellos ==
    {HelloFor(ApiTest),
     ClientHello(SupportedVersionsExt \o ServerNameExt(SniEntry(0, Bytes(BlockedTest)))),
     ClientHello(ServerNameExt(SniEntry(0, Bytes(ApiTest))) \o SupportedVersionsExt),
     TlsRecord(22, Handshake(1, ClientHelloBody(<<7, 7>>,
                                    ServerNameExt(SniEntry(0, Bytes(ApiTest)))))),
     ClientHello(ServerNameExt(SniEntry(OtherNameType, Bytes(ApiTest)))),
     ClientHello(ServerNameExt(SniEntry(OtherNameType, Bytes(BlockedTest))
                                  \o SniEntry(0, Bytes(ApiTest)))),
     ClientHello(ServerNameExt(SniEntry(0, Latin1Name))),
     ClientHello(SupportedVersionsExt),
     ClientHello(<<>>),
     TlsRecord(22, Handshake(2, ClientHelloBody(<<>>, <<>>))),
     TlsRecord(23, <<1, 2, 3>>)}

WithByte(buf, i, b) == [buf EXCEPT ![i] = b]

\* a ClientHello whose extensions block is declared 4 bytes long: the
\* header of the server_name extension is inside it, its data is not
ShortExtensionsBlock ==
    WithByte(HelloFor(ApiTest), Len(HelloFor(ApiTest)) - Len(ApiTest) - 9, 4)

SniBuffers ==
    {ShortExtensionsBlock} \cup
    UNION {{SubSeq(h, 1, n) : n \in 0..Len(h)} : h \in WellFormedHellos}
    \cup UNION {{WithByte(h, i, b) : i \in 1..Len(h), b \in {0, 1, 255}} :
                  h \in {HelloFor(ApiTest),
                         ClientHello(SupportedVersionsExt
                             \o ServerNameExt(SniEntry(0, Bytes(BlockedTest))))}}

InitSni == InitWith(ServerConfigs)

\* parse_sni(&buf[..n]) on one buffer
Parse(buf) ==
    /\ ~sni.parsed
    /\ sni' = [parsed |-> TRUE, buf |-> buf, result |-> parse_sni(buf),
               span |-> NameSpan(buf)]
    /\ UNCHANGED <<variant, config, ca, listener, acceptErrors, conn, traffic, pol, log>>

NextSni == \E buf \in SniBuffers : Parse(buf)

SpecSni == InitSni /\ [][NextSni]_vars

(***************************************************************************)
(* SpecLog: the connection tasks writing their traffic events to           *)
(* /logs/traffic.jsonl, one write call at a time                           *)
(***************************************************************************)
LogEntries ==
    {TrafficEntry("BLOCK", BlockedTest, PathRoot, MethodConnect, "enforce",
                  "Host Not Allowed"),
     TrafficEntry("ALLOW", ApiTest, PathV1Users, MethodGet, "enforce",
                  "Path Match")}

\* writeln!(file, "{}", entry) on a std::fs::File: write_fmt passes the text
\* of the object and the "\n" of the format string to the file in separate
\* write calls (the object itself may take more than one)
LineWrites(c, entry) ==
    <<[task |-> c, text |-> "object", entry |-> entry],
      [task |-> c, text |-> "newline", entry |-> entry]>>

InitLog == InitWith(ServerConfigs)

\* a task enters log_traffic: the file is opened for append, or the event is
\* dropped
LogTraffic(c, entry) ==
    /\ log.calls[c] = 0
    /\ \E opened \in BOOLEAN :
          log' = [log EXCEPT !.calls[c] = 1,
                             !.pending[c] = IF opened THEN LineWrites(c, entry)
                                            ELSE <<>>]
    /\ UNCHANGED <<variant, config, ca, listener, acceptErrors, conn, traffic, pol, sni>>

\* the next write call of a task inside writeln!: O_APPEND puts its bytes at
\* the end of the file; an error ends the writeln!, `let _ =` drops it
LogWrite(c) ==
    /\ log.pending[c] # <<>>
    /\ \/ log' = [log EXCEPT !.file = Append(@, Head(log.pending[c])),
                             !.pending[c] = Tail(@)]
       \/ log' = [log EXCEPT !.pending[c] = <<>>]
    /\ UNCHANGED <<variant, config, ca, listener, acceptErrors, conn, traffic, pol, sni>>

\* the worker threads of the runtime run the tasks in parallel
NextLog ==
    \E c \in ConnIds :
        \/ \E entry \in LogEntries : LogTraffic(c, entry)
        \/ LogWrite(c)

SpecLog == InitLog /\ [][NextLog]_vars

(***************************************************************************)
(* Properties                                                              *)
(***************************************************************************)
\* step a was taken, and before step b, whenever step b was taken
Precedes(steps, a, b) ==
    Idx(steps, b) > 0 => (Idx(steps, a) > 0 /\ Idx(steps, a) < Idx(steps, b))

Ran(r, step) == Idx(r.steps, step) > 0

\* C1: a connection whose discovered host the host gate denies never dials
\* upstream and never mints a leaf; a dial or a mint is only ever attempted
\* after the host gate has run and allowed the host
C1_DeniedHostNeverDialedNorMinted ==
    \A c \in ConnIds :
        LET r == conn[c]
        IN /\ (Ran(r, "host_gate") /\ ~check_host_allowed(config, r.hostname)[1])
              => (/\ ~Ran(r, "dial") /\ ~Ran(r, "mint")
                  /\ r.upstream = "none" /\ r.leaf = NoLeaf)
           /\ (Ran(r, "dial") \/ Ran(r, "mint") \/ r.upstream # "none" \/ r.leaf # NoLeaf)
              => (/\ r.hostDec[1]
                  /\ r.hostChecked = r.hostname
                  /\ Precedes(r.steps, "host_gate", "dial")
                  /\ Precedes(r.steps, "host_gate", "mint"))

\* C1 witness: an Enforce-mode connection ended by the host gate's deny
C1_Witness ==
    \E c \in ConnIds :
        /\ config.mode = "enforce"
        /\ conn[c].pc = "closed"
        /\ conn[c].hostname = BlockedTest
        /\ conn[c].hostDec = <<FALSE, "Host Not Allowed">>
        /\ conn[c].steps = <<"discover", "host_gate">>

\* C2: nothing is written to the outbound TLS stream before check_request has
\* run on the first request; when check_request denies, nothing is ever
\* written upstream and the canned 403 is what is written on the inbound TLS
\* stream
C2_NothingUpstreamBeforePathGate ==
    \A c \in ConnIds :
        LET r == conn[c]
        IN /\ r.upstreamOut # <<>>
              => (/\ Ran(r, "path_gate")
                  /\ Precedes(r.steps, "path_gate", "forward")
                  /\ check_request(config, r.hostname, r.path)[1]
                  /\ r.upstreamOut[1] = r.request_data)
           /\ ~Ran(r, "path_gate") => (r.upstreamOut = <<>> /\ r.tlsOut = <<>>)
           /\ (Ran(r, "path_gate") /\ ~check_request(config, r.hostname, r.path)[1])
              => (/\ r.upstreamOut = <<>>
                  /\ r.tlsOut = <<Canned403>>
                  /\ r.pc = "closed")

\* C2 witness: the path gate denied a request read over an established
\* outbound TLS session
C2_Witness ==
    \E c \in ConnIds :
        /\ conn[c].pc = "closed"
        /\ conn[c].upstream = "tls"
        /\ conn[c].path = PathV2Admin
        /\ conn[c].pathDec = <<FALSE, "Path Not Allowed">>
        /\ conn[c].tlsOut = <<Canned403>>

\* the number of log_traffic calls made by connections 1..n
RECURSIVE EventsUpTo(_)
EventsUpTo(n) == IF n = 0 THEN 0 ELSE Len(conn[n].events) + EventsUpTo(n - 1)

\* C3 as stated: every connection that has ended, whatever way it ended, has
\* emitted exactly one traffic event
C3_ExactlyOneEventPerConnection ==
    \A c \in ConnIds :
        (conn[c].pc = "closed") => Len(conn[c].events) = 1

\* C3 amended: a connection emits at most one traffic event; it has emitted
\* exactly one once the host gate denied (a BLOCK for CONNECT on "/") or once
\* the path gate ran (ALLOW or BLOCK for the parsed method and path), and
\* none when it ended before a gate decided
C3_OneEventOnceAGateDecides ==
    /\ Len(traffic) <= EventsUpTo(MaxConns)
    /\ \A c \in ConnIds :
        LET r == conn[c]
            hostDenied == Ran(r, "host_gate") /\ ~r.hostDec[1]
        IN /\ Len(r.events) <= 1
           /\ Len(r.events) = 1 <=> (hostDenied \/ Ran(r, "path_gate"))
           /\ hostDenied =>
                r.events = <<TrafficEntry("BLOCK", r.hostname, PathRoot, MethodConnect,
                                          config.mode, "Host Not Allowed")>>
           /\ Ran(r, "path_gate") =>
                r.events = <<TrafficEntry(IF r.pathDec[1] THEN "ALLOW" ELSE "BLOCK",
                                          r.hostname, r.path, r.method,
                                          config.mode, r.pathDec[2])>>

\* C3 witness: a connection that was allowed by both gates, spliced and ended
\* holds its single ALLOW event
C3_Witness ==
    \E c \in ConnIds :
        /\ conn[c].pc = "closed" /\ conn[c].result = "ok"
        /\ Ran(conn[c], "splice")
        /\ Len(conn[c].events) = 1
        /\ conn[c].events[1].action = "ALLOW"
        /\ traffic = conn[c].events

C5_AcceptErrorKeepsLoop ==
    acceptErrors > 0 => listener = "listening"

\* C6: when a connection task fails, the accept loop is still listening and
\* every other connection's state is untouched; no step changes the shared
\* CaAuthority or Config
C6_TaskFailureIsLocal ==
    [][/\ \A c \in ConnIds :
             (conn[c].result = "running" /\ conn'[c].result = "err")
             => (/\ listener = "listening" /\ listener' = "listening"
                 /\ \A d \in ConnIds \ {c} : conn'[d] = conn[d])
       /\ config' = config
       /\ ca' = ca]_vars

\* C6 witness: the first connection failed and the second, accepted by the
\* same loop, was served to the end while the loop keeps listening
C6_Witness ==
    /\ MaxConns >= 2
    /\ conn[1].result = "err"
    /\ conn[2].result = "ok" /\ Ran(conn[2], "splice")
    /\ listener = "listening"
    /\ ca = CaAuthority

\* C7: once the outbound TLS handshake is done, its server name is the name
\* on the connection's leaf, which is the host the host gate checked, and the
\* path gate then checks that same host
C7_OutboundNameIsLeafName ==
    \A c \in ConnIds :
        LET r == conn[c]
        IN /\ r.upstream = "tls"
              => (/\ r.serverName = r.leaf.san
                  /\ r.serverName = r.leaf.cn
                  /\ r.serverName = r.hostChecked
                  /\ r.upstreamAddr.host = r.serverName)
           /\ Ran(r, "path_gate")
              => (/\ r.upstream = "tls"
                  /\ r.requestChecked.host = r.serverName
                  /\ r.events[1].host = r.serverName)

\* C7 witness: a CONNECT connection to a non-default port that reached the
\* path gate
C7_Witness ==
    \E c \in ConnIds :
        /\ Ran(conn[c], "path_gate")
        /\ conn[c].port = 8443
        /\ conn[c].serverName = ABExampleCom
        /\ conn[c].leaf.san = ABExampleCom

\* C8: under a Monitor snapshot both checks allow every host and path, no
\* connection emits a BLOCK event and none is answered with a 403
C8_MonitorNeverDenies ==
    config.mode = "monitor" =>
        /\ \A h \in PolicyHosts : check_host_allowed(config, h)[1]
        /\ \A h \in PolicyHosts, p \in PolicyPaths : check_request(config, h, p)[1]
        /\ \A c \in ConnIds :
              LET r == conn[c]
              IN /\ Ran(r, "host_gate") => r.hostDec = <<TRUE, "Monitor Mode">>
                 /\ Ran(r, "path_gate") => r.pathDec = <<TRUE, "Monitor Mode">>
                 /\ \A i \in 1..Len(r.events) : r.events[i].action # "BLOCK"
                 /\ \A i \in 1..Len(r.clientOut) : r.clientOut[i].status # 403
                 /\ \A i \in 1..Len(r.tlsOut) : r.tlsOut[i] # Canned403
        /\ \A i \in 1..Len(traffic) : traffic[i].action # "BLOCK"

\* C8 witness: under a Monitor snapshot whose only rule names another host
\* and other paths, a request was allowed and forwarded
C8_Witness ==
    \E c \in ConnIds :
        /\ config.mode = "monitor"
        /\ config.allowed_rules = <<[host |-> ApiTest, allowed_paths |-> <<PathV1>>]>>
        /\ conn[c].hostname = BlockedTest
        /\ conn[c].path = PathV2Admin
        /\ conn[c].upstreamOut # <<>>
        /\ conn[c].events[1].action = "ALLOW"

\* C9: whenever check_request allows (host, path) under a snapshot,
\* check_host_allowed allows host under that snapshot
C9_RequestAllowedImpliesHostAllowed ==
    (pol.evaluated /\ pol.reqDec[1]) => pol.hostDec[1]

\* C9 witness: in Enforce mode a subdomain of a rule's host was allowed by
\* check_request through a path prefix
C9_Witness ==
    /\ pol.evaluated
    /\ config.mode = "enforce"
    /\ pol.host = ABExampleCom
    /\ pol.reqDec = <<TRUE, "Path Match">>

\* the prefixes of a string
Prefixes(s) == {SubSeq(s, 1, k) : k \in 0..Len(s)}

\* H is R, or some text followed by "." followed by R
IsHostOrSubdomain(H, R) ==
    H = R \/ \E pre \in Prefixes(H) : H = pre \o <<".">> \o R

\* C10: in Enforce mode a host passes the host lookup exactly when it equals
\* some rule's host or ends with "." followed by it; under the single rule
\* example.com that admits example.com, api.example.com and a.b.example.com
\* and rejects badexample.com and example.com.evil.com
C10_SuffixRule ==
    (pol.evaluated /\ config.mode = "enforce") =>
        LET rules == config.allowed_rules
            matched == \E i \in 1..Len(rules) : IsHostOrSubdomain(pol.host, rules[i].host)
        IN /\ pol.hostDec[1] <=> matched
           /\ (pol.reqDec[2] # "Host Not Allowed") <=> matched
           /\ (Len(rules) = 1 /\ rules[1].host = ExampleCom) =>
                /\ pol.host \in {ExampleCom, ApiExampleCom, ABExampleCom} => pol.hostDec[1]
                /\ pol.host \in {BadExampleCom, ExampleComEvilCom} => ~pol.hostDec[1]

\* C10 witness: badexample.com evaluated against the single rule example.com
C10_Witness ==
    /\ pol.evaluated
    /\ config.mode = "enforce"
    /\ Len(config.allowed_rules) = 1
    /\ config.allowed_rules[1].host = ExampleCom
    /\ pol.host = BadExampleCom
    /\ pol.hostDec = <<FALSE, "Host Not Allowed">>


\* index of the first rule whose host is the host or a parent domain of it,
\* 0 when there is none
FirstMatch(rules, host) ==
    IF \E i \in 1..Len(rules) : IsHostOrSubdomain(host, rules[i].host)
    THEN CHOOSE i \in 1..Len(rules) :
            /\ IsHostOrSubdomain(host, rules[i].host)
            /\ \A j \in 1..(i - 1) : ~IsHostOrSubdomain(host, rules[j].host)
    ELSE 0

\* the decision one rule gives for a path
RuleDecision(rule, path) ==
    IF rule.allowed_paths = <<>> THEN <<TRUE, "Host Match">>
    ELSE IF \E k \in 1..Len(rule.allowed_paths) : rule.allowed_paths[k] \in Prefixes(path)
         THEN <<TRUE, "Path Match">>
         ELSE <<FALSE, "Path Not Allowed">>

\* C11: in Enforce mode check_request answers for the first rule matching the
\* host: Host Match when its allowed_paths is empty, Path Match when some
\* entry is a literal prefix of the path, Path Not Allowed otherwise, and
\* Host Not Allowed when no rule matches the host
C11_RequestDecision ==
    (pol.evaluated /\ config.mode = "enforce") =>
        LET i == FirstMatch(config.allowed_rules, pol.host)
        IN pol.reqDec = IF i = 0 THEN <<FALSE, "Host Not Allowed">>
                        ELSE RuleDecision(config.allowed_rules[i], pol.path)

\* C11 witness: the second of two allowed_paths entries is the prefix that
\* admits the path
C11_Witness ==
    /\ pol.evaluated
    /\ config.mode = "enforce"
    /\ config.allowed_rules = <<[host |-> ApiTest, allowed_paths |-> <<PathV2Admin, PathV1>>]>>
    /\ pol.host = ApiTest
    /\ pol.path = PathV1Users
    /\ pol.reqDec = <<TRUE, "Path Match">>

\* the rules after the first one that also match the host
LaterMatches(rules, host) ==
    {j \in 1..Len(rules) : j > FirstMatch(rules, host) /\ IsHostOrSubdomain(host, rules[j].host)}

\* C12: when several rules match the host, the decision of check_request is
\* the one it gives with every rule after the first match removed; a later
\* matching rule that would allow the path does not overturn the first
\* rule's denial
C12_FirstMatchWins ==
    (pol.evaluated /\ config.mode = "enforce"
       /\ LaterMatches(config.allowed_rules, pol.host) # {}) =>
        LET rules == config.allowed_rules
            i == FirstMatch(rules, pol.host)
            cut == [config EXCEPT !.allowed_rules = SubSeq(rules, 1, i)]
        IN /\ pol.reqDec = check_request(cut, pol.host, pol.path)
           /\ ~RuleDecision(rules[i], pol.path)[1] => ~pol.reqDec[1]
           /\ RuleDecision(rules[i], pol.path)[1] => pol.reqDec[1]

\* C12 witness: the first matching rule denies the path and the second
\* matching rule allows every path
C12_Witness ==
    /\ pol.evaluated
    /\ config.mode = "enforce"
    /\ config.allowed_rules = <<[host |-> ExampleCom, allowed_paths |-> <<PathV1>>],
                                [host |-> DotCom, allowed_paths |-> <<>>]>>
    /\ pol.host = ApiExampleCom
    /\ pol.path = PathV2Admin
    /\ pol.reqDec = <<FALSE, "Path Not Allowed">>


\* C19: a spliced connection is closed by the step in which the first copy
\* direction completes; the other direction never completes, and after that
\* step no byte is copied in either direction
C19_SpliceEndsWithFirstCompletion ==
    [][\A c \in ConnIds :
          /\ conn'[c].done # {} =>
                /\ conn'[c].pc = "closed"
                /\ Cardinality(conn'[c].done) = 1
          /\ conn[c].done # {} =>
                /\ conn'[c].upstreamOut = conn[c].upstreamOut
                /\ conn'[c].tlsOut = conn[c].tlsOut
                /\ conn'[c].copied = conn[c].copied]_vars

\* C19 witness: the client-to-upstream copy completed and closed the
\* connection while the upstream-to-client copy had moved nothing of what
\* upstream had to send
C19_Witness ==
    \E c \in ConnIds :
        /\ conn[c].pc = "closed"
        /\ conn[c].done = {"client_to_upstream"}
        /\ conn[c].copied[2] = 0
        /\ MaxSplice > 0


\* the pre-TLS statuses of a CONNECT connection: which one is written in
\* which case, and what a 400, 403 or 502 excludes
Has200(r) == \E i \in 1..Len(r.clientOut) : r.clientOut[i] = Resp200

StatusRows(r) ==
    LET parsed == r.found = "some"
        allowed == Ran(r, "host_gate") /\ r.hostDec[1]
        dialed == r.upstream # "none"
    IN /\ Has200(r) => (parsed /\ allowed /\ dialed
                         /\ Precedes(r.steps, "dial", "send200"))
       /\ (parsed /\ allowed /\ dialed) => (Has200(r) \/ r.pc = "send200")
       /\ r.found = "none" => (r.clientOut = <<Resp400>> /\ r.pc = "closed")
       /\ (Ran(r, "host_gate") /\ ~r.hostDec[1])
             => (r.clientOut = <<Resp403Host>> /\ r.pc = "closed")
       /\ (Ran(r, "dial") /\ ~dialed)
             => (r.clientOut = <<Resp502(r.hostname)>> /\ r.pc = "closed")
       /\ (\E i \in 1..Len(r.clientOut) : r.clientOut[i].status \in {400, 403, 502})
             => (/\ ~Has200(r)
                 /\ r.leaf = NoLeaf /\ ~Ran(r, "mint")
                 /\ r.inbound = "tcp" /\ ~Ran(r, "inbound_tls"))

\* C13 as stated: every finished CONNECT connection was sent exactly one
\* pre-TLS status, 200 if and only if the request parsed, the host was
\* allowed and the dial succeeded, 400, 403 or 502 otherwise
C13_ExactlyOneStatusPerConnection ==
    \A c \in ConnIds :
        variant = "connect" =>
            /\ conn[c].pc = "closed" => Len(conn[c].clientOut) = 1
            /\ StatusRows(conn[c])

\* C13: a CONNECT connection is sent at most one pre-TLS status; a finished
\* one was sent none exactly when the read of the CONNECT request failed
\* with an I/O error, and otherwise exactly one: 200 if and only if the
\* request parsed, the host gate allowed the host and the dial succeeded,
\* 400 on a parse failure, 403 on a host deny, 502 on a dial failure, and
\* with a 400, 403 or 502 there is no 200, no leaf and no inbound handshake
C13_OneStatusUnlessReadFails ==
    \A c \in ConnIds :
        variant = "connect" =>
            /\ Len(conn[c].clientOut) <= 1
            /\ conn[c].pc = "closed"
                  => (Len(conn[c].clientOut) = 0 <=> conn[c].found = "err")
            /\ StatusRows(conn[c])

\* C13 witness: the request parsed, the host was allowed, the dial failed
\* and 502 is the only status the client was sent
C13_Witness ==
    \E c \in ConnIds :
        /\ variant = "connect"
        /\ conn[c].pc = "closed"
        /\ conn[c].found = "some"
        /\ conn[c].hostDec[1]
        /\ conn[c].steps = <<"discover", "host_gate", "dial">>
        /\ conn[c].clientOut = <<Resp502(ApiTest)>>


\* C14: read_connect_request keeps reading only while no CRLFCRLF has been
\* read and fewer than ConnectBufLen bytes have; once ConnectBufLen bytes
\* without a CRLFCRLF have been read, however the reads split them, the
\* connection is closed with 400 as its only answer, and no host gate, no
\* dial and no traffic event
C14_CeilingWithoutHeadersEndIs400 ==
    \A c \in ConnIds :
        LET r == conn[c]
            data == SubSeq(r.stream, 1, r.total_read)
        IN variant = "connect" =>
            /\ r.total_read <= ConnectBufLen
            /\ r.pc = "discover"
                  => (~HasHeadersEnd(data) /\ r.total_read < ConnectBufLen)
            /\ (r.total_read = ConnectBufLen /\ ~HasHeadersEnd(data))
                  => (/\ r.pc = "closed"
                      /\ r.found = "none"
                      /\ r.clientOut = <<Resp400>>
                      /\ r.steps = <<"discover">>
                      /\ r.hostDec = NoDecision
                      /\ r.upstream = "none" /\ r.upstreamAddr = NoAddr
                      /\ r.events = <<>>
                      /\ Len(traffic) <= EventsUpTo(MaxConns))

\* C14 witness: a request whose headers end after the ceiling, refused
\* when the buffer was full
C14_Witness ==
    \E c \in ConnIds :
        /\ variant = "connect"
        /\ conn[c].stream = PaddedConnect(ApiTest443, ConnectBufLen + 4)
        /\ conn[c].total_read = ConnectBufLen
        /\ conn[c].pc = "closed"
        /\ conn[c].clientOut = <<Resp400>>

\* the number of bytes of a stream up to the end of its first CRLFCRLF
HeadersEnd(stream) ==
    3 + (CHOOSE i \in 1..Len(stream) :
            /\ i + 3 <= Len(stream) /\ SubSeq(stream, i, i + 3) = CRLFCRLF
            /\ \A j \in 1..(i - 1) : SubSeq(stream, j, j + 3) # CRLFCRLF)

\* C15 as stated: after a successful CONNECT discovery exactly the bytes up
\* to the first CRLFCRLF have been taken off the client stream, and the
\* inbound TLS handshake is given every byte the client sent after them
C15_NothingReadPastHeaders ==
    \A c \in ConnIds :
        LET r == conn[c]
        IN (variant = "connect" /\ r.found = "some") =>
            /\ r.consumed = HeadersEnd(r.stream)
            /\ r.inbound = "tls"
                  => r.handshakeIn = DropFirst(r.stream, HeadersEnd(r.stream))


\* C16 as stated: parse_sni returns the name of the first host_name entry
\* (name_type 0) of the server_name extension, and fails when there is no
\* such extension, when the entry is not a host_name, or when the name is
\* not valid UTF-8
C16_OnlyHostNameEntries ==
    sni.parsed =>
        /\ \A t \in {0, OtherNameType}, name \in {ApiTest, BlockedTest} :
              sni.buf = ClientHello(ServerNameExt(SniEntry(t, Bytes(name))))
                 => sni.result = IF t = 0 THEN SniSome(name) ELSE SniNone
        /\ sni.buf = ClientHello(ServerNameExt(SniEntry(0, Latin1Name)))
              => sni.result = SniNone
        /\ sni.buf = ClientHello(SupportedVersionsExt) => sni.result = SniNone

\* C17: when parse_sni finds no name in the peeked bytes, the SNI gateway
\* closes the connection without a word: nothing written to the client, no
\* host gate, no leaf, no upstream connection, no traffic event, and not
\* one byte taken off the client stream
C17_SniParseFailureIsSilent ==
    \A c \in ConnIds :
        LET r == conn[c]
            buf == SubSeq(r.stream, 1, r.peeked)
        IN (variant = "sni" /\ Ran(r, "discover") /\ r.found # "err") =>
            /\ (\/ Len(buf) < 5
                \/ At(buf, 0) # 22
                \/ Len(buf) < 5 + U16(At(buf, 3), At(buf, 4))
                \/ buf = ClientHello(SupportedVersionsExt))
                  => r.found = "none"
            /\ r.found = "none" <=> parse_sni(buf).kind = "none"
            /\ r.found = "none" =>
                  /\ r.pc = "closed" /\ r.result = "ok"
                  /\ r.steps = <<"discover">>
                  /\ r.clientOut = <<>> /\ r.tlsOut = <<>>
                  /\ r.hostDec = NoDecision
                  /\ r.leaf = NoLeaf
                  /\ r.upstream = "none" /\ r.upstreamAddr = NoAddr
                  /\ r.events = <<>>
                  /\ r.consumed = 0

\* C17 witness: the peek returned a ClientHello cut three bytes before the
\* end of its server_name extension
C17_Witness ==
    \E c \in ConnIds :
        /\ variant = "sni"
        /\ conn[c].stream = HelloFor(ApiTest)
        /\ conn[c].peeked = Len(HelloFor(ApiTest)) - 3
        /\ conn[c].found = "none"
        /\ conn[c].pc = "closed"

\* C20: on every buffer parse_sni ends with a name or with a failure, never
\* with an index or a slice outside the buffer
C20_ParseSniStaysInBounds ==
    sni.parsed => sni.result.kind \in {"some", "none"}

\* C20 witness: a ClientHello whose name length says 255 bytes where 8 are
\* left is refused
C20_Witness ==
    /\ sni.parsed
    /\ sni.buf = WithByte(HelloFor(ApiTest),
                          Len(HelloFor(ApiTest)) - Len(ApiTest), 255)
    /\ sni.result = SniNone


\* C18 as stated: in the file every event is one complete object on its own
\* line; the text of an object is directly followed by the newline of the
\* same log_traffic call, whatever other tasks write meanwhile
C18_LinesNeverInterleave ==
    \A i \in 1..Len(log.file) :
        (log.file[i].text = "object" /\ i < Len(log.file)) =>
            /\ log.file[i + 1].text = "newline"
            /\ log.file[i + 1].task = log.file[i].task


\* the first read of the inbound plaintext stream returned, with fewer than
\* two tokens on its first line
ShortFirstRequest(r) ==
    /\ Ran(r, "read_request")
    /\ r.method # <<>>
    /\ Len(SplitWhitespace(FirstLine(r.request_data))) < 2

\* C21: after a first read with fewer than two tokens on its first line (a
\* read of no bytes included) the method is "?" and the path "/", the path
\* gate is the next step and decides (host, "/"), its event is the only one
\* and carries that method and path, and on allow the bytes read are what is
\* written upstream before the connection is spliced (a write of at least
\* one byte can fail; a write of none cannot)
C21_ShortFirstRequest ==
    \A c \in ConnIds :
        LET r == conn[c]
            dec == check_request(config, r.hostname, PathRoot)
        IN ShortFirstRequest(r) =>
            /\ r.method = MethodUnknown /\ r.path = PathRoot
            /\ r.pc = "path_gate" \/ Ran(r, "path_gate")
            /\ Ran(r, "path_gate") =>
                  /\ r.requestChecked = [host |-> r.hostname, path |-> PathRoot]
                  /\ r.pathDec = dec
                  /\ r.events = <<TrafficEntry(IF dec[1] THEN "ALLOW" ELSE "BLOCK",
                                               r.hostname, PathRoot, MethodUnknown,
                                               config.mode, dec[2])>>
                  /\ dec[1] => (r.pc = "forward" \/ Ran(r, "forward"))
                  /\ ~dec[1] => (r.pc = "closed" /\ ~Ran(r, "forward")
                                 /\ r.upstreamOut = <<>>)
            /\ Ran(r, "forward") =>
                  /\ r.upstreamOut[1] = r.request_data
                  /\ \/ r.pc = "splice"
                     \/ Ran(r, "splice")
                     \/ r.request_data # <<>> /\ r.pc = "closed" /\ r.result = "err"

\* C21 witness: the client closed after the handshake, the read returned no
\* byte, the rule has no allowed paths and the connection is spliced
C21_Witness ==
    \E c \in ConnIds :
        /\ config.mode = "enforce"
        /\ conn[c].request_data = <<>>
        /\ conn[c].method = MethodUnknown
        /\ conn[c].pathDec = <<TRUE, "Host Match">>
        /\ Len(conn[c].events) = 1 /\ conn[c].events[1].action = "ALLOW"
        /\ conn[c].upstreamOut = <<(<<>>)>>
        /\ conn[c].pc = "splice"


\* C22: a connection has at most one traffic event; a host gate that denies
\* leaves its BLOCK event as the only one and ends the connection there, no
\* first request is read and no path gate runs; a host gate that allows
\* leaves no event, so the event of the path gate is the first and only one
C22_AtMostOneEvent ==
    \A c \in ConnIds :
        LET r == conn[c]
        IN /\ Len(r.events) <= 1
           /\ (Ran(r, "host_gate") /\ ~r.hostDec[1]) =>
                 /\ r.events = <<TrafficEntry("BLOCK", r.hostname, PathRoot,
                                              MethodConnect, config.mode,
                                              r.hostDec[2])>>
                 /\ r.pc = "closed"
                 /\ r.steps[Len(r.steps)] = "host_gate"
                 /\ ~Ran(r, "read_request") /\ ~Ran(r, "path_gate")
           /\ (Ran(r, "host_gate") /\ r.hostDec[1] /\ ~Ran(r, "path_gate"))
                 => r.events = <<>>
           /\ Ran(r, "path_gate") =>
                 /\ r.hostDec[1]
                 /\ Precedes(r.steps, "host_gate", "path_gate")
                 /\ r.events = <<TrafficEntry(IF r.pathDec[1] THEN "ALLOW" ELSE "BLOCK",
                                              r.hostname, r.path, r.method,
                                              config.mode, r.pathDec[2])>>

\* C22 witness: a connection that the host gate allowed and whose first
\* request the path gate refused: one BLOCK event, of the path gate
C22_Witness ==
    \E c \in ConnIds :
        /\ conn[c].hostDec = <<TRUE, "Host Allowed">>
        /\ conn[c].pathDec = <<FALSE, "Path Not Allowed">>
        /\ conn[c].pc = "closed"
        /\ Len(conn[c].events) = 1
        /\ conn[c].events[1].action = "BLOCK"
        /\ conn[c].events[1].method = MethodGet


\* C23: the decision of the path gate is taken on the hostname and under the
\* snapshot the host gate allowed, so its reason is never Host Not Allowed:
\* a BLOCK is Path Not Allowed, an ALLOW is Monitor Mode, Host Match or
\* Path Match, and the event carries that reason
C23_PathGateNeverHostNotAllowed ==
    \A c \in ConnIds :
        LET r == conn[c]
        IN Ran(r, "path_gate") =>
            /\ r.hostChecked = r.hostname
            /\ r.requestChecked.host = r.hostname
            /\ r.hostDec = check_host_allowed(config, r.hostname)
            /\ r.hostDec[1]
            /\ r.pathDec = check_request(config, r.hostname, r.path)
            /\ r.pathDec[2] # "Host Not Allowed"
            /\ ~r.pathDec[1] => r.pathDec[2] = "Path Not Allowed"
            /\ r.pathDec[1] => r.pathDec[2] \in {"Monitor Mode", "Host Match",
                                                 "Path Match"}
            /\ \A i \in 1..Len(r.events) : r.events[i].reason = r.pathDec[2]

\* C23 witness: under an enforce snapshot a request for /v2/admin to a host
\* whose rule allows /v1/ only is blocked by the path gate
C23_Witness ==
    \E c \in ConnIds :
        /\ config.mode = "enforce"
        /\ Ran(conn[c], "path_gate")
        /\ conn[c].hostname = ApiTest
        /\ conn[c].path = PathV2Admin
        /\ conn[c].events[1].reason = "Path Not Allowed"


\* C24: both gates deny only under a snapshot whose mode is exactly
\* "enforce"; under every other mode ("monitor", the default of a missing
\* mode, "Enforce", the empty string) they allow every host and every path
\* with reason Monitor Mode
C24_OnlyEnforceDenies ==
    pol.evaluated =>
        /\ config.mode \in PolicyModes
        /\ config.mode # "enforce" =>
              /\ pol.hostDec = <<TRUE, "Monitor Mode">>
              /\ pol.reqDec = <<TRUE, "Monitor Mode">>
        /\ (~pol.hostDec[1] \/ ~pol.reqDec[1]) => config.mode = "enforce"

\* C24 witness: under mode "Enforce" a host that no rule names is allowed
\* with reason Monitor Mode, while "enforce" would deny it
C24_Witness ==
    /\ pol.evaluated
    /\ config.mode = "Enforce"
    /\ config.allowed_rules = <<[host |-> ExampleCom, allowed_paths |-> <<PathV1>>]>>
    /\ pol.host = BlockedTest
    /\ pol.hostDec = <<TRUE, "Monitor Mode">>
    /\ pol.reqDec = <<TRUE, "Monitor Mode">>
    /\ ~check_host_allowed([config EXCEPT !.mode = "enforce"], pol.host)[1]


\* C25 as stated: a name parse_sni returns was decoded from bytes that lie
\* inside the TLS record (before offset 5 + record_len), inside the
\* handshake message (before 9 + hello_len) and inside the extensions block
\* (before ext_end)
C25_NameInsideDeclaredStructures ==
    (sni.parsed /\ sni.result.kind = "some") =>
        LET buf == sni.buf
            record_len == U16(At(buf, 3), At(buf, 4))
            hello_len == U24(At(buf, 6), At(buf, 7), At(buf, 8))
        IN /\ sni.span.from <= sni.span.to
           /\ sni.span.to <= Len(buf)
           /\ sni.span.to <= 5 + record_len
           /\ sni.span.to <= 9 + hello_len
           /\ sni.span.to <= sni.span.ext_end

====
